---- MODULE Spec2Model ----
(***************************************************************************)
(* A model of stremio-core-web:                                            *)
(*   - src/src/stremio_core_web.rs: the process-wide RUNTIME handle, the   *)
(*     asynchronous initialize_runtime startup sequence, get_state and     *)
(*     dispatch;                                                           *)
(*   - src/src/model/serialize_meta_details.rs: the projection of the      *)
(*     meta-details state into a view-model snapshot.                      *)
(***************************************************************************)
EXTENDS Integers, Sequences, FiniteSets, TLC

\* ------------------------------------------------------------------ bounds
MaxInitCalls == 2       \* initialize_runtime invocations in one process
MaxEvents == 2          \* runtime events emitted by the domain runtime
MaxSlots == 3           \* meta slots on the details screen

\* Runtime::<WebEnv, _>::new(model, effects, 1000): the event buffer
EventBuffer == 1000

\* ------------------------------------------------------------ value spaces
Calls == 1..MaxInitCalls
Errors == {"e1", "e2"}                 \* EnvError / ResourceError values
Keys == {"k1"}                         \* library item ids
Values == {"a", "b"}                   \* library item payloads

\* Option<T>
None == [tag |-> "None"]
Some(v) == [tag |-> "Some", value |-> v]
\* Loadable<T, E>
Loading == [tag |-> "Loading"]
Ready(v) == [tag |-> "Ready", value |-> v]
Err(e) == [tag |-> "Err", error |-> e]
\* Result<T, E> (Err is shared with Loadable), a future not yet resolved, and
\* the outcome of a call that panicked
Ok(v) == [tag |-> "Ok", value |-> v]
Pending == [tag |-> "Pending"]
NotStarted == [tag |-> "NotStarted"]
Panic == [tag |-> "Panic"]

is_some(o) == o.tag # "None"
is_ready(l) == l.tag = "Ready"
is_err(l) == l.tag = "Err"
is_loading(l) == l.tag = "Loading"

\* ----------------------------------------------------- JS boundary values
\* A JsValue handed to get_state / dispatch: undefined, null, a string or an
\* object {action, args}.
JsUndefined == [t |-> "undefined", v |-> "", args |-> [action |-> "", official |-> FALSE]]
JsNull == [t |-> "null", v |-> "", args |-> [action |-> "", official |-> FALSE]]
JsStr(s) == [t |-> "string", v |-> s, args |-> [action |-> "", official |-> FALSE]]
JsObj(a, sub, off) == [t |-> "object", v |-> a, args |-> [action |-> sub, official |-> off]]
\* JsValue::from_serde(x): the serialized form of a Rust value
JsFromSerde(x) == [t |-> "serde", v |-> x]

FieldNames == {"ctx", "meta_details"}
FieldInputs == {JsUndefined, JsStr("ctx"), JsStr("meta_details"), JsStr("no_such_field")}
ActionInputs ==
    { JsNull,
      JsObj("Ctx", "InstallAddon", TRUE),
      JsObj("Ctx", "InstallAddon", FALSE),
      JsObj("Unload", "", FALSE) }

\* field.into_serde::<WebModelField>()
FieldIntoSerde(js) ==
    IF js.t = "string" /\ js.v \in FieldNames THEN Ok(js.v) ELSE Err("serde")

\* action.into_serde::<Action>()
ActionIntoSerde(js) ==
    IF js.t = "object" /\ js.v = "Ctx" /\ js.args.action = "InstallAddon"
    THEN Ok([kind |-> "Ctx", ctx |-> "InstallAddon", official |-> js.args.official])
    ELSE IF js.t = "object" /\ js.v = "Unload"
    THEN Ok([kind |-> "Unload", ctx |-> "", official |-> FALSE])
    ELSE Err("serde")

VARIABLES
    RUNTIME,            \* Option<Loadable<Runtime, EnvError>>
    pc,                 \* per initialize_runtime call: where it stands
    migration_result,   \* per call: the migrate_storage_schema future
    storage,            \* per call: the three get_storage futures
    result,             \* per call: what the call returned
    runtime,            \* per call: the runtime it constructed, if any
    rx,                 \* per call: events emitted and not yet forwarded
    emitted,            \* per call: number of events its runtime emitted
    sink,               \* per call: the invocations of its emit callback
    task,               \* per call: the forwarding task it spawned
    last,               \* the most recent call crossing the JS boundary
    meta_items,         \* meta_details.meta_items: the meta slots
    streams,            \* meta_details.streams: the stream slots
    selected,           \* meta_details.selected
    addons,             \* ctx.profile.addons: the installed descriptors
    snapshot            \* the value serialize_meta_details returned for this state

rtVars == <<RUNTIME, pc, migration_result, storage, result, runtime, rx,
            emitted, sink, task, last>>
mdVars == <<meta_items, streams, selected, addons, snapshot>>
vars == <<rtVars, mdVars>>

\* ------------------------------------------------------- persisted storage
Profiles == {[uid |-> "user"]}
DefaultProfile == [uid |-> "anonymous"]          \* Profile::default()
Buckets == UNION {[D -> Values] : D \in SUBSET Keys}

\* What WebEnv::migrate_storage_schema() may resolve to
MigrationOutcomes == {Ok("unit")} \cup {Err(e) : e \in Errors}

\* What WebEnv::get_storage::<T>(key) may resolve to, for the k-th key
StorageOutcomes(k) ==
    IF k = 1
    THEN {Ok(None)} \cup {Ok(Some(p)) : p \in Profiles} \cup {Err(e) : e \in Errors}
    ELSE {Ok(None)} \cup {Ok(Some(b)) : b \in Buckets} \cup {Err(e) : e \in Errors}

\* LibraryBucket::merge_bucket: the entries of `bucket` are merged into the
\* library; on a key both hold, the merged-in entry replaces the held one.
merge_bucket(lib, bucket) ==
    [lib EXCEPT !.items =
        [k \in (DOMAIN lib.items) \cup (DOMAIN bucket) |->
            IF k \in DOMAIN bucket THEN bucket[k] ELSE lib.items[k]]]

\* profile.unwrap_or_default()
unwrap_or_default(profile) ==
    IF is_some(profile) THEN profile.value ELSE DefaultProfile

\* The merges in the other order: the full bucket first, then the recent one.
BuildLibrary_full_first(profile, recent_bucket, other_bucket) ==
    LET library0 == [uid |-> profile.uid, items |-> <<>>]
        library1 == IF is_some(other_bucket)
                    THEN merge_bucket(library0, other_bucket.value) ELSE library0
    IN  IF is_some(recent_bucket)
        THEN merge_bucket(library1, recent_bucket.value) ELSE library1

\* let mut library = LibraryBucket::new(profile.uid(), vec![]);
\* then the recent bucket is merged, then the other (full) bucket
BuildLibrary(profile, recent_bucket, other_bucket) ==
    LET library0 == [uid |-> profile.uid, items |-> <<>>]
        library1 == IF is_some(recent_bucket)
                    THEN merge_bucket(library0, recent_bucket.value) ELSE library0
    IN  IF is_some(other_bucket)
        THEN merge_bucket(library1, other_bucket.value) ELSE library1

RECURSIVE FirstErr(_, _)
FirstErr(futs, k) ==
    IF k > Len(futs) THEN 0
    ELSE IF futs[k].tag = "Err" THEN k ELSE FirstErr(futs, k + 1)

\* One poll of future::try_join3: the futures are polled in argument order,
\* the first one found failed ends the join with its error; the join is Ok
\* once all three are.
try_join3(futs) ==
    IF FirstErr(futs, 1) # 0
    THEN Err(futs[FirstErr(futs, 1)].error)
    ELSE IF \A k \in 1..Len(futs) : futs[k].tag = "Ok"
    THEN Ok([k \in 1..Len(futs) |-> futs[k].value])
    ELSE Pending

\* ------------------------------------------------------------ call records
NoCall ==
    [op |-> "none", handle |-> "None", action |-> JsUndefined, field |-> JsUndefined,
     outcome |-> None, forwarded |-> <<>>, analytics |-> None]

CallRecord(op, action, field, outcome, forwarded, analytics) ==
    [op |-> op, handle |-> RUNTIME.tag, action |-> action, field |-> field,
     outcome |-> outcome, forwarded |-> forwarded, analytics |-> analytics]

Init ==
    /\ RUNTIME = None
    /\ pc = [c \in Calls |-> "idle"]
    /\ migration_result = [c \in Calls |-> NotStarted]
    /\ storage = [c \in Calls |-> [k \in 1..3 |-> NotStarted]]
    /\ result = [c \in Calls |-> None]
    /\ runtime = [c \in Calls |-> None]
    /\ rx = [c \in Calls |-> <<>>]
    /\ emitted = [c \in Calls |-> 0]
    /\ sink = [c \in Calls |-> <<>>]
    /\ task = [c \in Calls |-> "none"]
    /\ last = NoCall
    /\ meta_items = <<>>
    /\ streams = <<>>
    /\ selected = None
    /\ addons = <<>>
    /\ snapshot = None

\* ------------------------------------------------------ initialize_runtime
\* Calls are numbered in the order they are made.
CallStarts(c) == pc[c] = "idle" /\ \A b \in Calls : b < c => pc[b] # "idle"

\* A guard that stops a second call only once the handle is Ready.
Guard_only_ready(handle) == handle.tag = "Ready"

\* A guard that lets a call through again after a failed startup.
Guard_allows_retry(handle) == handle.tag \in {"Loading", "Ready"}

\* A guard that stops a second call only once the first one has finished.
Guard_ignores_loading(handle) == handle.tag \in {"Ready", "Err"}

\* if RUNTIME.read().expect(..).is_some() { panic!(..) }
Guard(handle) == is_some(handle)

\* The call up to its first await: the guard, the write of Loading and the
\* start of the schema migration run without a suspension point in between.
initialize_runtime(c) ==
    /\ CallStarts(c)
    /\ last' = CallRecord("initialize_runtime", JsUndefined, JsUndefined,
                          IF Guard(RUNTIME) THEN Panic ELSE Pending, <<>>, None)
    /\ IF Guard(RUNTIME)
       THEN /\ pc' = [pc EXCEPT ![c] = "panicked"]
            /\ result' = [result EXCEPT ![c] = Panic]
            /\ UNCHANGED <<RUNTIME, migration_result>>
       ELSE /\ RUNTIME' = Loading
            /\ pc' = [pc EXCEPT ![c] = "migrate"]
            /\ migration_result' = [migration_result EXCEPT ![c] = Pending]
            /\ UNCHANGED result
    /\ UNCHANGED <<storage, runtime, rx, emitted, sink, task>>
    /\ UNCHANGED mdVars

\* The Err arms: the handle is written first, then the error is returned.
FailStartup(c, error) ==
    /\ RUNTIME' = Err(error)
    /\ result' = [result EXCEPT ![c] = Err(JsFromSerde(error))]
    /\ pc' = [pc EXCEPT ![c] = "done"]

\* A startup that goes on to load the buckets whatever the migration returned.
MigrationDone_keeps_going(c, r) ==
    /\ pc[c] = "migrate"
    /\ migration_result' = [migration_result EXCEPT ![c] = r]
    /\ storage' = [storage EXCEPT ![c] = [k \in 1..3 |-> Pending]]
    /\ pc' = [pc EXCEPT ![c] = "join"]
    /\ UNCHANGED <<RUNTIME, result>>
    /\ UNCHANGED <<runtime, rx, emitted, sink, task, last>>
    /\ UNCHANGED mdVars

\* migrate_storage_schema().await resolves with r and the call goes on to
\* the match on migration_result.
MigrationDone(c, r) ==
    /\ pc[c] = "migrate"
    /\ migration_result' = [migration_result EXCEPT ![c] = r]
    /\ IF r.tag = "Ok"
       THEN /\ storage' = [storage EXCEPT ![c] = [k \in 1..3 |-> Pending]]
            /\ pc' = [pc EXCEPT ![c] = "join"]
            /\ UNCHANGED <<RUNTIME, result>>
       ELSE /\ FailStartup(c, r.error)
            /\ UNCHANGED storage
    /\ UNCHANGED <<runtime, rx, emitted, sink, task, last>>
    /\ UNCHANGED mdVars

\* One of the three get_storage futures resolves while the join is awaited.
StorageResolve(c, k, r) ==
    /\ pc[c] = "join"
    /\ storage[c][k].tag = "Pending"
    /\ storage' = [storage EXCEPT ![c][k] = r]
    /\ UNCHANGED <<RUNTIME, pc, migration_result, result, runtime, rx, emitted,
                   sink, task, last>>
    /\ UNCHANGED mdVars

\* The Ok arm: the library is merged, the model and the runtime are
\* constructed, the forwarding task is spawned and the handle becomes Ready.
FinishStartup(c, loaded) ==
    LET profile == unwrap_or_default(loaded[1])
        library == BuildLibrary(profile, loaded[2], loaded[3])
    IN  /\ runtime' = [runtime EXCEPT ![c] = Some([profile |-> profile, library |-> library])]
        /\ task' = [task EXCEPT ![c] = "running"]
        /\ RUNTIME' = Ready(c)
        /\ result' = [result EXCEPT ![c] = Ok("unit")]
        /\ pc' = [pc EXCEPT ![c] = "done"]

\* try_join3(..).await resolves and the call goes on to the match on
\* storage_result.
StorageJoined(c) ==
    LET storage_result == try_join3(storage[c])
    IN  /\ pc[c] = "join"
        /\ storage_result.tag # "Pending"
        /\ IF storage_result.tag = "Ok"
           THEN FinishStartup(c, storage_result.value)
           ELSE FailStartup(c, storage_result.error) /\ UNCHANGED <<runtime, task>>
        /\ UNCHANGED <<migration_result, storage, rx, emitted, sink, last>>
        /\ UNCHANGED mdVars

\* ------------------------------------------------------- the domain runtime
\* The domain runtime emits its next event into the channel of Runtime::new.
RuntimeEmit(c) ==
    /\ is_some(runtime[c])
    /\ emitted[c] < MaxEvents
    /\ Len(rx[c]) < EventBuffer
    /\ emitted' = [emitted EXCEPT ![c] = @ + 1]
    /\ rx' = [rx EXCEPT ![c] = Append(@, emitted[c] + 1)]
    /\ UNCHANGED <<RUNTIME, pc, migration_result, storage, result, runtime,
                   sink, task, last>>
    /\ UNCHANGED mdVars

SinkOutcomes == {"returns", "throws"}

\* One turn of rx.for_each(..): the next event is taken from the channel,
\* serialized and handed to emit; .expect("emit event failed") panics the
\* task when the callback throws.
ForwardEvent(c, outcome) ==
    /\ task[c] = "running"
    /\ rx[c] # <<>>
    /\ sink' = [sink EXCEPT ![c] = Append(@, JsFromSerde(Head(rx[c])))]
    /\ rx' = [rx EXCEPT ![c] = Tail(@)]
    /\ task' = [task EXCEPT ![c] = IF outcome = "throws" THEN "panicked" ELSE "running"]
    /\ UNCHANGED <<RUNTIME, pc, migration_result, storage, result, runtime,
                   emitted, last>>
    /\ UNCHANGED mdVars

\* --------------------------------------------------------------- get_state
\* model.get_state(&field) of the runtime's model
ModelGetState(c, field) == [t |-> "state", v |-> field]

get_state(field) ==
    /\ last' = CallRecord("get_state", JsUndefined, field,
                   IF RUNTIME.tag = "Ready"
                   THEN IF FieldIntoSerde(field).tag = "Ok"
                        THEN ModelGetState(RUNTIME.value, FieldIntoSerde(field).value)
                        ELSE JsNull
                   ELSE Panic,
                   <<>>, None)
    /\ UNCHANGED <<RUNTIME, pc, migration_result, storage, result, runtime, rx,
                   emitted, sink, task>>
    /\ UNCHANGED mdVars

\* ---------------------------------------------------------------- dispatch
\* The analytics message built (and dropped) for Action::Ctx(InstallAddon)
AnalyticsHook(action) ==
    LET deserialized_action == ActionIntoSerde(action)
    IN  IF /\ deserialized_action.tag = "Ok"
           /\ deserialized_action.value.kind = "Ctx"
           /\ deserialized_action.value.ctx = "InstallAddon"
        THEN LET category == IF deserialized_action.value.official
                             THEN "official" ELSE "community"
             IN  Some([name |-> "installAddon", cat |-> category])
        ELSE None

\* A routing that drops the command when the field selector does not decode.
Route_drops_on_bad_field(action, field) ==
    LET a == ActionIntoSerde(action)
        f == FieldIntoSerde(field)
    IN  IF a.tag = "Ok" /\ f.tag = "Ok"
        THEN <<[action |-> a.value, to |-> Some(f.value)]>>
        ELSE <<>>

\* match (action.into_serde(), field.into_serde()): what reaches the runtime,
\* as dispatch_to_field (to = Some(field)) or as dispatch (to = None)
Route(action, field) ==
    LET a == ActionIntoSerde(action)
        f == FieldIntoSerde(field)
    IN  IF a.tag = "Ok" /\ f.tag = "Ok"
        THEN <<[action |-> a.value, to |-> Some(f.value)]>>
        ELSE IF a.tag = "Ok"
        THEN <<[action |-> a.value, to |-> None]>>
        ELSE <<>>

\* A dispatch whose analytics hook swallows the command it reports on.
dispatch_hook_blocks(action, field) ==
    /\ last' = CallRecord("dispatch", action, field,
                   IF RUNTIME.tag = "Ready" THEN Ok("unit") ELSE Panic,
                   IF RUNTIME.tag = "Ready" /\ ~is_some(AnalyticsHook(action))
                   THEN Route(action, field) ELSE <<>>,
                   AnalyticsHook(action))
    /\ UNCHANGED <<RUNTIME, pc, migration_result, storage, result, runtime,
                   rx, emitted, sink, task>>
    /\ UNCHANGED mdVars

\* A dispatch that returns quietly when the handle is not Ready.
dispatch_silent_when_not_ready(action, field) ==
    /\ last' = CallRecord("dispatch", action, field, Ok("unit"),
                   IF RUNTIME.tag = "Ready" THEN Route(action, field) ELSE <<>>,
                   AnalyticsHook(action))
    /\ UNCHANGED <<RUNTIME, pc, migration_result, storage, result, runtime,
                   rx, emitted, sink, task>>
    /\ UNCHANGED mdVars

\* The analytics hook runs first; then the handle is read and, when it is
\* Ready, the routed command is handed to the runtime (forwarded lists the
\* dispatch / dispatch_to_field calls made on it).
dispatch(action, field) ==
    /\ last' = CallRecord("dispatch", action, field,
                   IF RUNTIME.tag = "Ready" THEN Ok("unit") ELSE Panic,
                   IF RUNTIME.tag = "Ready" THEN Route(action, field) ELSE <<>>,
                   AnalyticsHook(action))
    /\ UNCHANGED <<RUNTIME, pc, migration_result, storage, result, runtime,
                   rx, emitted, sink, task>>
    /\ UNCHANGED mdVars

\* ------------------------------------------------------------ specification
Next ==
    \/ \E c \in Calls : initialize_runtime(c)
    \/ \E c \in Calls, r \in MigrationOutcomes : MigrationDone(c, r)
    \/ \E c \in Calls, k \in 1..3 : \E r \in StorageOutcomes(k) : StorageResolve(c, k, r)
    \/ \E c \in Calls : StorageJoined(c)
    \/ \E c \in Calls : RuntimeEmit(c)
    \/ \E c \in Calls, o \in SinkOutcomes : ForwardEvent(c, o)
    \/ \E field \in FieldInputs : get_state(field)
    \/ \E action \in ActionInputs, field \in FieldInputs : dispatch(action, field)

Spec == Init /\ [][Next]_vars

\* The startup and the event forwarding alone: get_state and dispatch write
\* nothing but their call record, so the forwarding is studied without them.
NextEvents ==
    \/ \E c \in Calls : initialize_runtime(c)
    \/ \E c \in Calls, r \in MigrationOutcomes : MigrationDone(c, r)
    \/ \E c \in Calls, k \in 1..3 : \E r \in StorageOutcomes(k) : StorageResolve(c, k, r)
    \/ \E c \in Calls : StorageJoined(c)
    \/ \E c \in Calls : RuntimeEmit(c)
    \/ \E c \in Calls, o \in SinkOutcomes : ForwardEvent(c, o)

\* WebEnv::exec spawns the forwarding task on the executor, which polls a
\* task whenever its stream has an event ready: a forwarding step that stays
\* possible is taken.
Forward == \E c \in Calls, o \in SinkOutcomes : ForwardEvent(c, o)
LiveSpec == Init /\ [][NextEvents]_vars /\ WF_vars(Forward)

\* =========================================================================
\* serialize_meta_details
\* =========================================================================
\* The meta slot at position i was requested from provider i; the providers
\* that may be installed are those of Providers.
Providers == {1, 2}
StreamSlotCounts == 0..2                      \* stream slots on the screen
ResourceErrors == {"e1", "e2"}              \* ResourceError values
META_RESOURCE_NAME == "meta"                 \* stremio_core::constants

Link(url, category) == [url |-> url, category |-> category, name |-> url]
Video(id, series_info) == [id |-> id, title |-> id, series_info |-> series_info]

\* The meta items a provider may answer with
MetaItems ==
    { [id |-> "i1", name |-> "Foo",
       videos |-> <<Video("v1", Some([season |-> 2, episode |-> 5])), Video("v2", None)>>,
       default_video_id |-> None,
       links |-> <<Link("x", "meta"), Link("y", "actor"), Link("x", "meta")>>],
      [id |-> "i2", name |-> "Bar",
       videos |-> <<Video("v1", None)>>,
       default_video_id |-> Some("v1"),
       links |-> <<Link("z", "meta"), Link("x", "meta")>>] }

MetaOutcomes == {Ready(m) : m \in MetaItems} \cup {Err(e) : e \in ResourceErrors}
StreamOutcomes == {Ready(<<"s1", "s2">>), Err("e1")}
SelectedInputs ==
    {None, Some([stream_path |-> None])}
        \cup {Some([stream_path |-> Some([id |-> v])]) : v \in {"v1", "v2", "v9"}}

Slot(base, content) == [request |-> [base |-> base], content |-> content]
Descriptor(url) == [transport_url |-> url, manifest |-> [id |-> url, name |-> url, logo |-> None]]

\* ctx.profile.addons when the providers of `installed` are installed
InstalledList(installed) ==
    SelectSeq(<<Descriptor(1), Descriptor(2)>>, LAMBDA d : d.transport_url \in installed)

\* iter().find(|slot| slot.content is `tag`), as a position (0: not found)
RECURSIVE find_content(_, _, _)
find_content(slots, tag, i) ==
    IF i > Len(slots) THEN 0
    ELSE IF slots[i].content.tag = tag THEN i
    ELSE find_content(slots, tag, i + 1)

\* iter().find(|addon| addon.transport_url == base), as a position
RECURSIVE find_addon(_, _, _)
find_addon(descriptors, base, i) ==
    IF i > Len(descriptors) THEN 0
    ELSE IF descriptors[i].transport_url = base THEN i
    ELSE find_addon(descriptors, base, i + 1)

\* A selection that takes the first slot that has not failed.
PrimarySelection_skips_only_errors(slots) ==
    IF \A i \in 1..Len(slots) : is_err(slots[i].content)
    THEN IF Len(slots) = 0 THEN 0 ELSE 1
    ELSE CHOOSE i \in 1..Len(slots) :
            /\ ~is_err(slots[i].content)
            /\ \A j \in 1..(i - 1) : is_err(slots[j].content)

\* A selection that surfaces the last slot when all have failed.
PrimarySelection_last_error(slots) ==
    IF find_content(slots, "Ready", 1) # 0
    THEN find_content(slots, "Ready", 1)
    ELSE IF \A i \in 1..Len(slots) : is_err(slots[i].content)
    THEN Len(slots)
    ELSE find_content(slots, "Loading", 1)

\* A selection that takes the last Ready slot.
PrimarySelection_last_ready(slots) ==
    IF \E i \in 1..Len(slots) : is_ready(slots[i].content)
    THEN CHOOSE i \in 1..Len(slots) :
            /\ is_ready(slots[i].content)
            /\ \A j \in (i + 1)..Len(slots) : ~is_ready(slots[j].content)
    ELSE IF \A i \in 1..Len(slots) : is_err(slots[i].content)
    THEN IF Len(slots) = 0 THEN 0 ELSE 1
    ELSE find_content(slots, "Loading", 1)

\* A selection that falls back to the first slot whenever none is Ready.
PrimarySelection_first_slot(slots) ==
    IF find_content(slots, "Ready", 1) # 0
    THEN find_content(slots, "Ready", 1)
    ELSE IF Len(slots) = 0 THEN 0 ELSE 1

\* let meta_item = meta_items.iter().find(is_ready).or_else(|| if all
\* is_err { first() } else { find(is_loading) }): the position of the
\* selected slot, 0 for None
PrimarySelection(slots) ==
    IF find_content(slots, "Ready", 1) # 0
    THEN find_content(slots, "Ready", 1)
    ELSE IF \A i \in 1..Len(slots) : is_err(slots[i].content)
    THEN IF Len(slots) = 0 THEN 0 ELSE 1
    ELSE find_content(slots, "Loading", 1)

DescriptorPreview(addon) ==
    [transportUrl |-> addon.transport_url,
     manifest |-> [id |-> addon.manifest.id, name |-> addon.manifest.name,
                   logo |-> addon.manifest.logo]]

\* model::ResourceLoadable of a meta slot: the match on its content
MetaItemContent(slot) ==
    CASE slot.content.tag = "Ready" ->
            Ready([meta_item |-> slot.content.value,
                   videos |-> [v \in 1..Len(slot.content.value.videos) |->
                                  [video |-> slot.content.value.videos[v],
                                   deep_links |-> <<slot.content.value.videos[v].id,
                                                    slot.request.base>>]],
                   deep_links |-> slot.content.value.id])
      [] slot.content.tag = "Loading" -> Loading
      [] slot.content.tag = "Err" -> Err(slot.content.error)

\* A meta_item that falls back to the first slot of an installed provider.
MetaItemField_first_installed(slots, descriptors) ==
    LET attributable == {i \in 1..Len(slots) :
                            find_addon(descriptors, slots[i].request.base, 1) # 0}
    IN  IF attributable = {} THEN None
        ELSE LET p == CHOOSE i \in attributable : \A j \in attributable : i <= j
             IN  Some([content |-> MetaItemContent(slots[p]),
                       addon |-> DescriptorPreview(
                           descriptors[find_addon(descriptors, slots[p].request.base, 1)])])

\* meta_item: the primary slot, kept only when an installed addon has its
\* request's base
MetaItemField(slots, descriptors) ==
    LET p == PrimarySelection(slots)
        a == IF p = 0 THEN 0 ELSE find_addon(descriptors, slots[p].request.base, 1)
    IN  IF p = 0 \/ a = 0 THEN None
        ELSE Some([content |-> MetaItemContent(slots[p]),
                   addon |-> DescriptorPreview(descriptors[a])])

\* A stream entry that shows a failed slot as still loading.
StreamsContent_errors_as_loading(slot, slots) ==
    LET p == PrimarySelection(slots)
    IN  CASE slot.content.tag = "Ready" ->
                Ready([s \in 1..Len(slot.content.value) |->
                         [stream |-> slot.content.value[s],
                          deep_links |->
                              IF p = 0 THEN <<slot.content.value[s]>>
                              ELSE <<slot.content.value[s], slot.request.base,
                                     slots[p].request.base>>]])
          [] slot.content.tag = "Loading" -> Loading
          [] slot.content.tag = "Err" -> Loading

\* model::ResourceLoadable of a stream slot; each stream's deep links are
\* built with the primary meta slot's request when there is one
StreamsContent(slot, slots) ==
    LET p == PrimarySelection(slots)
    IN  CASE slot.content.tag = "Ready" ->
                Ready([s \in 1..Len(slot.content.value) |->
                         [stream |-> slot.content.value[s],
                          deep_links |->
                              IF p = 0 THEN <<slot.content.value[s]>>
                              ELSE <<slot.content.value[s], slot.request.base,
                                     slots[p].request.base>>]])
          [] slot.content.tag = "Loading" -> Loading
          [] slot.content.tag = "Err" -> Err(slot.content.error)

\* A streams list that is held back until the primary meta slot is Ready.
StreamsField_needs_ready_primary(stream_slots, slots, descriptors, i) ==
    LET p == PrimarySelection(slots)
    IN  IF p = 0 \/ ~is_ready(slots[p].content) THEN <<>>
        ELSE [n \in 1..Len(SelectSeq(stream_slots,
                    LAMBDA s : find_addon(descriptors, s.request.base, 1) # 0)) |->
                LET s == SelectSeq(stream_slots,
                            LAMBDA t : find_addon(descriptors, t.request.base, 1) # 0)[n]
                IN  [content |-> StreamsContent(s, slots),
                     addon |-> DescriptorPreview(
                         descriptors[find_addon(descriptors, s.request.base, 1)])]]

\* streams: filter_map over the stream slots, then map
RECURSIVE StreamsField(_, _, _, _)
StreamsField(stream_slots, slots, descriptors, i) ==
    IF i > Len(stream_slots) THEN <<>>
    ELSE LET a == find_addon(descriptors, stream_slots[i].request.base, 1)
         IN  (IF a = 0 THEN <<>>
              ELSE <<[content |-> StreamsContent(stream_slots[i], slots),
                      addon |-> DescriptorPreview(descriptors[a])]>>)
                \o StreamsField(stream_slots, slots, descriptors, i + 1)

\* links.iter().filter(|link| link.category == META_RESOURCE_NAME)
\*     .map(|link| (link, addon))
RECURSIVE MetaLinks(_, _, _)
MetaLinks(links, addon, i) ==
    IF i > Len(links) THEN <<>>
    ELSE (IF links[i].category = META_RESOURCE_NAME
          THEN <<[link |-> links[i], addon |-> addon]>> ELSE <<>>)
            \o MetaLinks(links, addon, i + 1)

\* filter_map over the meta slots, then flat_map over the Ready ones
RECURSIVE LinkPairs(_, _, _)
LinkPairs(slots, descriptors, i) ==
    IF i > Len(slots) THEN <<>>
    ELSE LET a == find_addon(descriptors, slots[i].request.base, 1)
         IN  (IF a # 0 /\ is_ready(slots[i].content)
              THEN MetaLinks(slots[i].content.value.links, descriptors[a], 1)
              ELSE <<>>)
                \o LinkPairs(slots, descriptors, i + 1)

\* A deduplication that keeps the last pair of every url.
RECURSIVE unique_by_url_keeps_last(_, _)
unique_by_url_keeps_last(pairs, i) ==
    IF i > Len(pairs) THEN <<>>
    ELSE (IF \E j \in (i + 1)..Len(pairs) : pairs[j].link.url = pairs[i].link.url
          THEN <<>> ELSE <<pairs[i]>>)
            \o unique_by_url_keeps_last(pairs, i + 1)

\* .unique_by(|(link, _)| &link.url): the first pair of every url is kept
RECURSIVE unique_by_url(_, _)
unique_by_url(pairs, i) ==
    IF i > Len(pairs) THEN <<>>
    ELSE (IF \E j \in 1..(i - 1) : pairs[j].link.url = pairs[i].link.url
          THEN <<>> ELSE <<pairs[i]>>)
            \o unique_by_url(pairs, i + 1)

MetaExtensionsField(slots, descriptors) ==
    LET pairs == unique_by_url(LinkPairs(slots, descriptors, 1), 1)
    IN  [n \in 1..Len(pairs) |->
            [url |-> pairs[n].link.url, name |-> pairs[n].link.name,
             addon |-> DescriptorPreview(pairs[n].addon)]]

\* videos.iter().find(|video| video.id == id), as a position
RECURSIVE find_video(_, _, _)
find_video(videos, id, i) ==
    IF i > Len(videos) THEN 0
    ELSE IF videos[i].id = id THEN i
    ELSE find_video(videos, id, i + 1)

\* format!("{} - {} ({}x{})", ..) and format!("{} - {}", ..)
FormatTitle(name, video) ==
    IF is_some(video.series_info)
    THEN <<name, " - ", video.title, " (", video.series_info.value.season, "x",
           video.series_info.value.episode, ")">>
    ELSE <<name, " - ", video.title>>

\* A title that names the selected video also when the item declares a
\* default video.
TitleField_ignores_default_video(slots, sel) ==
    LET p == PrimarySelection(slots)
    IN  IF p = 0 \/ ~is_ready(slots[p].content) THEN None
        ELSE LET item == slots[p].content.value
                 v == IF is_some(sel) /\ is_some(sel.value.stream_path)
                      THEN find_video(item.videos, sel.value.stream_path.value.id, 1)
                      ELSE 0
             IN  IF v # 0
                 THEN Some(FormatTitle(item.name, item.videos[v]))
                 ELSE Some(<<item.name>>)

\* title: derived from the primary slot when it is Ready
TitleField(slots, sel) ==
    LET p == PrimarySelection(slots)
    IN  IF p = 0 \/ ~is_ready(slots[p].content) THEN None
        ELSE LET item == slots[p].content.value
                 v == IF is_some(sel) /\ is_some(sel.value.stream_path)
                      THEN find_video(item.videos, sel.value.stream_path.value.id, 1)
                      ELSE 0
             IN  IF v # 0 /\ ~is_some(item.default_video_id)
                 THEN Some(FormatTitle(item.name, item.videos[v]))
                 ELSE Some(<<item.name>>)

\* The snapshot; `primary` records the position of the slot selected.
serialize_meta_details(slots, stream_slots, sel, descriptors) ==
    [primary |-> PrimarySelection(slots),
     selected |-> sel,
     metaItem |-> MetaItemField(slots, descriptors),
     streams |-> StreamsField(stream_slots, slots, descriptors, 1),
     metaExtensions |-> MetaExtensionsField(slots, descriptors),
     title |-> TitleField(slots, sel)]

\* --------------------------------------------------- the details screen
\* The screen is loaded: every slot of it starts Loading.
InitMeta ==
    /\ RUNTIME = None
    /\ pc = [c \in Calls |-> "idle"]
    /\ migration_result = [c \in Calls |-> NotStarted]
    /\ storage = [c \in Calls |-> [k \in 1..3 |-> NotStarted]]
    /\ result = [c \in Calls |-> None]
    /\ runtime = [c \in Calls |-> None]
    /\ rx = [c \in Calls |-> <<>>]
    /\ emitted = [c \in Calls |-> 0]
    /\ sink = [c \in Calls |-> <<>>]
    /\ task = [c \in Calls |-> "none"]
    /\ last = NoCall
    /\ \E n \in 0..MaxSlots : meta_items = [i \in 1..n |-> Slot(i, Loading)]
    /\ \E n \in StreamSlotCounts : streams = [i \in 1..n |-> Slot(i, Loading)]
    /\ selected \in SelectedInputs
    /\ \E installed \in SUBSET Providers : addons = InstalledList(installed)
    /\ snapshot = None

\* The fetch of meta slot i completes: Loading -> Ready | Err, once. The
\* snapshot returned for the earlier state no longer stands for this one.
MetaFetched(i, content) ==
    /\ i \in 1..Len(meta_items)
    /\ is_loading(meta_items[i].content)
    /\ meta_items' = [meta_items EXCEPT ![i].content = content]
    /\ snapshot' = None
    /\ UNCHANGED <<streams, selected, addons, rtVars>>

\* The fetch of stream slot i completes.
StreamsFetched(i, content) ==
    /\ i \in 1..Len(streams)
    /\ is_loading(streams[i].content)
    /\ streams' = [streams EXCEPT ![i].content = content]
    /\ snapshot' = None
    /\ UNCHANGED <<meta_items, selected, addons, rtVars>>

\* The state is read: serialize_meta_details(meta_details, ctx)
Project ==
    /\ snapshot' = Some(serialize_meta_details(meta_items, streams, selected, addons))
    /\ UNCHANGED <<meta_items, streams, selected, addons, rtVars>>

NextMeta ==
    \/ \E i \in 1..MaxSlots, content \in MetaOutcomes : MetaFetched(i, content)
    \/ \E i \in StreamSlotCounts, content \in StreamOutcomes : StreamsFetched(i, content)
    \/ Project

SpecMeta == InitMeta /\ [][NextMeta]_vars

\* =========================================================================
\* Properties
\* =========================================================================
ReadySlots == {i \in 1..Len(meta_items) : is_ready(meta_items[i].content)}
LoadingSlots == {i \in 1..Len(meta_items) : is_loading(meta_items[i].content)}
ErrSlots == {i \in 1..Len(meta_items) : is_err(meta_items[i].content)}

\* C1: whenever the projected meta slots hold a Ready slot, the primary
\* selection is the first Ready slot in input order: it is Ready and no slot
\* before it is Ready, however many Loading or Err slots precede it.
C1_FirstReadyIsPrimary ==
    (is_some(snapshot) /\ ReadySlots # {}) =>
        /\ snapshot.value.primary \in ReadySlots
        /\ \A j \in ReadySlots : snapshot.value.primary <= j

\* A projection of <<Err, Loading, Ready>> selected the third slot.
C1_Witness ==
    /\ is_some(snapshot)
    /\ Len(meta_items) = 3
    /\ is_err(meta_items[1].content)
    /\ is_loading(meta_items[2].content)
    /\ is_ready(meta_items[3].content)
    /\ snapshot.value.primary = 3

\* C2: for a non-empty list of meta slots, the primary selection has Err
\* content exactly when every slot is Err, and it is then the first slot.
C2_ErrOnlyWhenAllErr ==
    (is_some(snapshot) /\ Len(meta_items) > 0) =>
        /\ snapshot.value.primary \in 1..Len(meta_items)
        /\ is_err(meta_items[snapshot.value.primary].content)
              <=> (ErrSlots = 1..Len(meta_items))
        /\ (ErrSlots = 1..Len(meta_items)) => snapshot.value.primary = 1

\* Three failed slots whose first error differs from the later ones: the
\* snapshot's metaItem carries the first slot's error.
C2_Witness ==
    /\ is_some(snapshot)
    /\ Len(meta_items) = 3
    /\ ErrSlots = {1, 2, 3}
    /\ meta_items[1].content.error = "e2"
    /\ meta_items[2].content.error = "e1"
    /\ meta_items[3].content.error = "e1"
    /\ snapshot.value.primary = 1
    /\ is_some(snapshot.value.metaItem)
    /\ snapshot.value.metaItem.value.content = Err("e2")

\* C3: with no Ready slot and at least one Loading slot, the primary
\* selection is the first Loading slot, also when Err slots precede it.
C3_FirstLoadingWhenNoneReady ==
    (is_some(snapshot) /\ ReadySlots = {} /\ LoadingSlots # {}) =>
        /\ snapshot.value.primary \in LoadingSlots
        /\ \A j \in LoadingSlots : snapshot.value.primary <= j

\* A projection of <<Err, Loading, Loading>> selected the second slot.
C3_Witness ==
    /\ is_some(snapshot)
    /\ Len(meta_items) = 3
    /\ is_err(meta_items[1].content)
    /\ is_loading(meta_items[2].content)
    /\ is_loading(meta_items[3].content)
    /\ snapshot.value.primary = 2

\* C4: an initialize_runtime call made while the handle is Loading, Ready or
\* Failed panics: it returns nothing (not the earlier result), starts no
\* startup step and leaves the handle as it was.
C4_ReinitializeFaults ==
    [][\A c \in Calls :
          (pc[c] = "idle" /\ pc'[c] # "idle" /\ RUNTIME.tag \in {"Loading", "Ready", "Err"}) =>
              /\ pc'[c] = "panicked"
              /\ result'[c] = Panic
              /\ UNCHANGED <<RUNTIME, migration_result, storage, runtime, rx, emitted,
                             sink, task>>]_vars

\* A second call was made while the first one was still loading the buckets.
C4_Witness ==
    \E c \in Calls :
        /\ pc[c] = "panicked"
        /\ last.op = "initialize_runtime"
        /\ last.handle = "Loading"
        /\ \E b \in Calls : pc[b] = "join"

\* C5: once the handle holds Ready or Failed its value never changes again.
C5_ReadyAndFailedAreTerminal ==
    [][RUNTIME.tag \in {"Ready", "Err"} => RUNTIME' = RUNTIME]_vars

\* The handle is still Failed after a later initialize_runtime call.
C5_Witness ==
    /\ RUNTIME.tag = "Err"
    /\ last.op = "initialize_runtime"
    /\ last.handle = "Err"
    /\ \E c \in Calls : pc[c] = "panicked"

\* C6: a get_state or dispatch call made while the handle is Uninitialized,
\* Loading or Failed panics, whatever its inputs: no state value is returned
\* and nothing is forwarded to the domain runtime.
C6_NotReadyFaults ==
    (last.op \in {"get_state", "dispatch"} /\ last.handle \in {"None", "Loading", "Err"}) =>
        /\ last.outcome = Panic
        /\ last.forwarded = <<>>

\* A dispatch of a decodable command to a decodable field, made while the
\* buckets were being loaded, panicked.
C6_Witness ==
    /\ last.op = "dispatch"
    /\ last.handle = "Loading"
    /\ ActionIntoSerde(last.action).tag = "Ok"
    /\ FieldIntoSerde(last.field).tag = "Ok"
    /\ last.outcome = Panic
    /\ \E c \in Calls : pc[c] = "join"

\* C7: a failure of the migration or of a bucket load short-circuits the
\* startup: the handle is Failed with the error the call returns, which is
\* the error of the step that failed; after a migration failure no load is
\* started; after a load failure no runtime is constructed and no forwarding
\* task spawned.
C7_FailureShortCircuits ==
    \A c \in Calls :
        /\ migration_result[c].tag = "Err" =>
              /\ result[c] = Err(JsFromSerde(migration_result[c].error))
              /\ RUNTIME = Err(migration_result[c].error)
              /\ \A k \in 1..3 : storage[c][k] = NotStarted
        /\ (\E k \in 1..3 : storage[c][k].tag = "Err") =>
              /\ runtime[c] = None
              /\ task[c] = "none"
              /\ RUNTIME.tag # "Ready"
              /\ result[c].tag # "Ok"
        /\ result[c].tag = "Err" =>
              /\ RUNTIME.tag = "Err"
              /\ result[c].error = JsFromSerde(RUNTIME.error)
              /\ runtime[c] = None
              /\ task[c] = "none"
              /\ \/ migration_result[c] = Err(RUNTIME.error)
                 \/ /\ migration_result[c].tag = "Ok"
                    /\ \E k \in 1..3 : storage[c][k] = Err(RUNTIME.error)

\* The recent-bucket load failed while the full-bucket load was pending.
C7_Witness ==
    \E c \in Calls :
        /\ migration_result[c].tag = "Ok"
        /\ storage[c][1].tag = "Ok"
        /\ storage[c][2] = Err("e2")
        /\ storage[c][3] = Pending
        /\ RUNTIME = Err("e2")
        /\ result[c] = Err(JsFromSerde("e2"))

\* C8: after a successful startup every event the runtime emits is
\* eventually handed to the sink, in emission order: the n-th emitted event
\* becomes the n-th sink invocation.
C8_EveryEventDelivered ==
    \A c \in Calls : \A n \in 1..MaxEvents :
        (emitted[c] >= n) ~> (Len(sink[c]) >= n /\ sink[c][n] = JsFromSerde(n))

\* C9: the library of the constructed runtime holds exactly the keys of the
\* recent and full buckets that were present; a key of both has the full
\* bucket's value, a key of the recent bucket alone has its recent value.
C9_FullBucketWins ==
    \A c \in Calls :
        is_some(runtime[c]) =>
            LET recent == IF is_some(storage[c][2].value)
                          THEN storage[c][2].value.value ELSE <<>>
                full == IF is_some(storage[c][3].value)
                        THEN storage[c][3].value.value ELSE <<>>
                items == runtime[c].value.library.items
            IN  /\ DOMAIN items = (DOMAIN recent) \cup (DOMAIN full)
                /\ \A k \in DOMAIN full : items[k] = full[k]
                /\ \A k \in (DOMAIN recent) \ (DOMAIN full) : items[k] = recent[k]

\* Both buckets held k1 with different values; the library has the full one.
C9_Witness ==
    \E c \in Calls :
        /\ RUNTIME = Ready(c)
        /\ storage[c][2] = Ok(Some([k \in {"k1"} |-> "a"]))
        /\ storage[c][3] = Ok(Some([k \in {"k1"} |-> "b"]))
        /\ runtime[c].value.library.items["k1"] = "b"

\* A field selector that was supplied and does not decode
Malformed(field) == field # JsUndefined /\ FieldIntoSerde(field).tag = "Err"

\* C10 as stated: when the handle is Ready, a dispatch whose command or whose
\* field selector is not decodable forwards nothing and raises no fault.
C10_UndecodableInputDropped ==
    (/\ last.op = "dispatch"
     /\ last.handle = "Ready"
     /\ \/ ActionIntoSerde(last.action).tag = "Err"
        \/ Malformed(last.field)) =>
        /\ last.forwarded = <<>>
        /\ last.outcome = Ok("unit")

\* C10, amended: when the handle is Ready no dispatch faults; a command that
\* does not decode is forwarded nowhere; a command that decodes, with a field
\* selector that does not, is forwarded once, globally.
C10_UndecodableFieldMeansGlobal ==
    (last.op = "dispatch" /\ last.handle = "Ready") =>
        /\ last.outcome = Ok("unit")
        /\ ActionIntoSerde(last.action).tag = "Err" => last.forwarded = <<>>
        /\ (ActionIntoSerde(last.action).tag = "Ok" /\ FieldIntoSerde(last.field).tag = "Err") =>
              last.forwarded = <<[action |-> ActionIntoSerde(last.action).value, to |-> None]>>

\* A decodable command with a malformed selector went to the runtime globally.
C10_Witness ==
    /\ last.op = "dispatch"
    /\ last.handle = "Ready"
    /\ ActionIntoSerde(last.action).tag = "Ok"
    /\ Malformed(last.field)
    /\ Len(last.forwarded) = 1
    /\ last.forwarded[1].to = None

\* C11: when the handle is Ready and the command decodes, dispatch returns
\* normally and hands the decoded command, unaltered, to the runtime exactly
\* once: to the named field (and not globally) when the selector names a
\* field, globally when no selector is supplied. This holds for every command
\* kind, also for the install-addon commands the analytics hook reports on.
C11_ForwardedExactlyOnce ==
    (/\ last.op = "dispatch"
     /\ last.handle = "Ready"
     /\ ActionIntoSerde(last.action).tag = "Ok") =>
        /\ last.outcome = Ok("unit")
        /\ Len(last.forwarded) = 1
        /\ last.forwarded[1].action = ActionIntoSerde(last.action).value
        /\ FieldIntoSerde(last.field).tag = "Ok" =>
              last.forwarded[1].to = Some(FieldIntoSerde(last.field).value)
        /\ last.field = JsUndefined => last.forwarded[1].to = None

\* An install-addon command of an official addon, for which the analytics
\* record was built, went once to the field the selector names.
C11_Witness ==
    /\ last.op = "dispatch"
    /\ last.handle = "Ready"
    /\ last.action = JsObj("Ctx", "InstallAddon", TRUE)
    /\ last.field = JsStr("meta_details")
    /\ last.analytics = Some([name |-> "installAddon", cat |-> "official"])
    /\ last.forwarded = <<[action |-> [kind |-> "Ctx", ctx |-> "InstallAddon", official |-> TRUE],
                           to |-> Some("meta_details")]>>

\* Whether a provider url is that of an installed descriptor
Installed(base) == \E a \in 1..Len(addons) : addons[a].transport_url = base

\* The urls of the meta-resource links meta slot i exposes: those of its item
\* when it is Ready and its provider is installed, none otherwise
ExposedUrls(i) ==
    IF Installed(meta_items[i].request.base) /\ is_ready(meta_items[i].content)
    THEN {meta_items[i].content.value.links[n].url :
            n \in {k \in 1..Len(meta_items[i].content.value.links) :
                      meta_items[i].content.value.links[k].category = META_RESOURCE_NAME}}
    ELSE {}

\* C12: in every snapshot no two metaExtensions entries have the same url;
\* the urls listed are exactly those of the meta-resource links of the Ready
\* meta slots whose provider is installed; each is attributed to the provider
\* of the first slot, in slot order, that exposes it. Loading, Err and
\* unattributable slots contribute nothing.
C12_MetaExtensionsUniqueFirstWins ==
    is_some(snapshot) =>
        LET ext == snapshot.value.metaExtensions
        IN  /\ \A k, n \in 1..Len(ext) : k # n => ext[k].url # ext[n].url
            /\ {ext[n].url : n \in 1..Len(ext)}
                  = UNION {ExposedUrls(i) : i \in 1..Len(meta_items)}
            /\ \A n \in 1..Len(ext) :
                  \E i \in 1..Len(meta_items) :
                      /\ ext[n].url \in ExposedUrls(i)
                      /\ \A j \in 1..(i - 1) : ext[n].url \notin ExposedUrls(j)
                      /\ ext[n].addon = DescriptorPreview(Descriptor(meta_items[i].request.base))

\* Two installed providers answered with items that both link to x: the
\* snapshot lists x once, attributed to the first slot's provider, and z.
C12_Witness ==
    /\ is_some(snapshot)
    /\ Len(meta_items) >= 2
    /\ Len(addons) = 2
    /\ is_ready(meta_items[1].content) /\ meta_items[1].content.value.id = "i1"
    /\ is_ready(meta_items[2].content) /\ meta_items[2].content.value.id = "i2"
    /\ snapshot.value.metaExtensions =
          <<[url |-> "x", name |-> "x", addon |-> DescriptorPreview(Descriptor(1))],
            [url |-> "z", name |-> "z", addon |-> DescriptorPreview(Descriptor(2))]>>

\* C13: the snapshot's metaItem is present exactly when a primary slot is
\* selected and its provider is installed; it then carries that provider's
\* descriptor and the primary slot's own load state (Loading, Ready with the
\* slot's item, or Err with the slot's error). A primary slot of a provider
\* that is not installed gives no metaItem.
C13_MetaItemIffAttributedPrimary ==
    is_some(snapshot) =>
        LET p == snapshot.value.primary
            item == snapshot.value.metaItem
        IN  /\ p = 0 <=> Len(meta_items) = 0
            /\ is_some(item) <=> (p # 0 /\ Installed(meta_items[p].request.base))
            /\ is_some(item) =>
                  /\ item.value.addon = DescriptorPreview(Descriptor(meta_items[p].request.base))
                  /\ item.value.content.tag = meta_items[p].content.tag
                  /\ is_ready(meta_items[p].content) =>
                        item.value.content.value.meta_item = meta_items[p].content.value
                  /\ is_err(meta_items[p].content) =>
                        item.value.content.error = meta_items[p].content.error

\* The first slot is still loading and the second, of the only installed
\* provider, is Ready: metaItem is the second slot's item with its descriptor.
C13_Witness ==
    /\ is_some(snapshot)
    /\ Len(meta_items) >= 2
    /\ addons = <<Descriptor(2)>>
    /\ is_loading(meta_items[1].content)
    /\ is_ready(meta_items[2].content)
    /\ is_some(snapshot.value.metaItem)
    /\ snapshot.value.metaItem.value.addon.transportUrl = 2
    /\ snapshot.value.metaItem.value.content.tag = "Ready"

\* The stream slots whose provider is installed, in input order
AttributedStreams == SelectSeq(streams, LAMBDA s : Installed(s.request.base))

\* C14: the snapshot's streams list has one entry for every stream slot whose
\* provider is installed, in input order, with that provider's descriptor and
\* the slot's own load state (Loading, Ready with the slot's streams, or Err
\* with the slot's error); the entries, their order and their load states are
\* settled by the stream slots and the installed descriptors alone, whatever
\* the meta slots hold.
C14_StreamsIndependentOfMeta ==
    is_some(snapshot) =>
        LET out == snapshot.value.streams
        IN  /\ Len(out) = Len(AttributedStreams)
            /\ \A n \in 1..Len(out) :
                  /\ out[n].addon = DescriptorPreview(Descriptor(AttributedStreams[n].request.base))
                  /\ out[n].content.tag = AttributedStreams[n].content.tag
                  /\ is_err(out[n].content) =>
                        out[n].content.error = AttributedStreams[n].content.error
                  /\ is_ready(out[n].content) =>
                        /\ Len(out[n].content.value) = Len(AttributedStreams[n].content.value)
                        /\ \A k \in 1..Len(out[n].content.value) :
                              out[n].content.value[k].stream = AttributedStreams[n].content.value[k]

\* No meta slot is Ready (one is loading, one failed) and only the second
\* provider is installed: the streams list is the second stream slot, Ready.
C14_Witness ==
    /\ is_some(snapshot)
    /\ Len(meta_items) = 2
    /\ is_err(meta_items[1].content)
    /\ is_loading(meta_items[2].content)
    /\ addons = <<Descriptor(2)>>
    /\ Len(streams) = 2
    /\ is_err(streams[1].content)
    /\ is_ready(streams[2].content)
    /\ Len(snapshot.value.streams) = 1
    /\ snapshot.value.streams[1].addon.transportUrl = 2
    /\ snapshot.value.streams[1].content.tag = "Ready"

\* C15: the title is absent when the primary slot is not Ready. When it is
\* Ready the title is "{name} - {video title}", with " ({season}x{episode})"
\* appended when the video has series info, exactly when the selection names
\* a video id found among the item's videos and the item declares no default
\* video; in every other case it is the item's name.
C15_TitleDerivation ==
    is_some(snapshot) =>
        LET p == snapshot.value.primary
            title == snapshot.value.title
        IN  IF p = 0 \/ ~is_ready(meta_items[p].content)
            THEN title = None
            ELSE LET item == meta_items[p].content.value
                     named == IF is_some(selected) /\ is_some(selected.value.stream_path)
                              THEN {k \in 1..Len(item.videos) :
                                      item.videos[k].id = selected.value.stream_path.value.id}
                              ELSE {}
                 IN  IF named # {} /\ item.default_video_id = None
                     THEN LET video == item.videos[CHOOSE k \in named : \A j \in named : k <= j]
                          IN  title = Some(<<item.name, " - ", video.title>>
                                  \o (IF video.series_info = None THEN <<>>
                                      ELSE <<" (", video.series_info.value.season, "x",
                                             video.series_info.value.episode, ")">>))
                     ELSE title = Some(<<item.name>>)

\* Item Foo without a default video, selected video v1 of season 2, episode
\* 5: the title is "Foo - v1 (2x5)".
C15_Witness ==
    /\ is_some(snapshot)
    /\ snapshot.value.primary # 0
    /\ meta_items[snapshot.value.primary].content = Ready(CHOOSE m \in MetaItems : m.id = "i1")
    /\ selected = Some([stream_path |-> Some([id |-> "v1"])])
    /\ snapshot.value.title = Some(<<"Foo", " - ", "v1", " (", 2, "x", 5, ")">>)

\* C16 as stated: Err content appears in a snapshot, in metaItem or in a
\* streams entry, only when every meta slot is Err.
C16_ErrOnlyWhenAllMetaErr ==
    is_some(snapshot) =>
        ((\/ is_some(snapshot.value.metaItem) /\ is_err(snapshot.value.metaItem.value.content)
          \/ \E n \in 1..Len(snapshot.value.streams) : is_err(snapshot.value.streams[n].content))
            => ErrSlots = 1..Len(meta_items))

\* C16, amended: a meta slot's error appears in the snapshot only as the
\* content of metaItem, only when every meta slot is Err, and it is then the
\* first slot's error; a stream slot's error appears as the Err content of
\* that slot's own streams entry whenever its provider is installed, whatever
\* the meta slots hold.
C16_MetaErrOnlyWhenAllErr ==
    is_some(snapshot) =>
        /\ (is_some(snapshot.value.metaItem) /\ is_err(snapshot.value.metaItem.value.content)) =>
              /\ Len(meta_items) > 0
              /\ ErrSlots = 1..Len(meta_items)
              /\ snapshot.value.metaItem.value.content = Err(meta_items[1].content.error)
        /\ {n \in 1..Len(snapshot.value.streams) : is_err(snapshot.value.streams[n].content)}
              = {n \in 1..Len(AttributedStreams) : is_err(AttributedStreams[n].content)}
        /\ \A n \in 1..Len(AttributedStreams) :
              is_err(AttributedStreams[n].content) =>
                  snapshot.value.streams[n].content = Err(AttributedStreams[n].content.error)

\* The primary meta slot is Ready and a stream slot of an installed provider
\* has failed: its streams entry carries the error.
C16_Witness ==
    /\ is_some(snapshot)
    /\ ReadySlots # {}
    /\ is_some(snapshot.value.metaItem)
    /\ is_ready(snapshot.value.metaItem.value.content)
    /\ \E n \in 1..Len(snapshot.value.streams) : snapshot.value.streams[n].content = Err("e1")

\* The calls that passed the guard and ran (part of) the startup sequence
Started == {c \in Calls : pc[c] \in {"migrate", "join", "done"}}

\* C17: however initialize_runtime calls interleave with each other and with
\* get_state and dispatch, at most one call passes the guard: the handle is
\* written to Loading at most once (only from Uninitialized, and it is never
\* Uninitialized again), at most one runtime is constructed and at most one
\* forwarding task is spawned; every other call panics.
C17_AtMostOneStartup ==
    /\ [](/\ Cardinality(Started) <= 1
          /\ Cardinality({c \in Calls : is_some(runtime[c])}) <= 1
          /\ Cardinality({c \in Calls : task[c] # "none"}) <= 1
          /\ \A c \in Calls : (is_some(runtime[c]) \/ task[c] # "none") => c \in Started
          /\ Started = {} <=> RUNTIME = None)
    /\ [][/\ (RUNTIME' = Loading /\ RUNTIME # Loading) => (RUNTIME = None /\ Started = {})
          /\ RUNTIME # None => RUNTIME' # None
          /\ Started \subseteq Started']_vars

\* Every call has been made: one constructed the only runtime and spawned
\* the only forwarding task, every other one panicked at the guard, and a
\* dispatch has since been accepted.
C17_Witness ==
    /\ Cardinality({c \in Calls : pc[c] = "panicked"}) >= 1
    /\ Cardinality({c \in Calls : pc[c] = "done" /\ is_some(runtime[c]) /\ task[c] = "running"}) = 1
    /\ \A c \in Calls : pc[c] # "idle"
    /\ last.op = "dispatch"
    /\ last.handle = "Ready"

\* C18: in every snapshot, a title that is present comes with a metaItem
\* that is present and has Ready content.
C18_TitleImpliesMetaItemReady ==
    is_some(snapshot) =>
        (is_some(snapshot.value.title) =>
            /\ is_some(snapshot.value.metaItem)
            /\ is_ready(snapshot.value.metaItem.value.content))

\* The primary position a projection of the given slots selects
PrimaryOf(slots) == PrimarySelection(slots)

\* C19: over any sequence of fetch completions on a fixed list of meta
\* slots, once a projection selects a Ready slot every later projection
\* selects a Ready slot, at a position that is not greater. Stated step by
\* step: when the projection of the state before a step selects a Ready
\* slot, so does the projection of the state after it, at a position that is
\* not greater; the list of slots and their requests never change.
C19_ReadyPrimaryNeverReverts ==
    [][/\ Len(meta_items') = Len(meta_items)
       /\ \A i \in 1..Len(meta_items) : meta_items'[i].request = meta_items[i].request
       /\ LET before == PrimaryOf(meta_items)
              after == PrimaryOf(meta_items')
          IN  (before # 0 /\ is_ready(meta_items[before].content)) =>
                  /\ after # 0
                  /\ is_ready(meta_items'[after].content)
                  /\ after <= before]_vars

\* The third slot failed, the second and the first are Ready, and the
\* snapshot of this state selects the first.
C19_Witness ==
    /\ is_some(snapshot)
    /\ Len(meta_items) = 3
    /\ is_ready(meta_items[1].content)
    /\ is_ready(meta_items[2].content)
    /\ is_err(meta_items[3].content)
    /\ snapshot.value.primary = 1

\* C20: in every state in which the handle is Ready the forwarding task is
\* attached to the event stream of its runtime, so that emitted events have
\* a consumer whenever a dispatch is accepted or a get_state served.
C20_ReadyImpliesConsumer ==
    \A c \in Calls : RUNTIME = Ready(c) => task[c] = "running"

====
